---- MODULE Spec2Model ----
(***************************************************************************)
(* Model of the products REST API: the per-route validation chains of      *)
(* src/src/router.ts and the six resource handlers of                      *)
(* src/src/handlers/product.ts, running against a relational store.        *)
(*                                                                         *)
(* JSON values are tagged records, strings are sequences of one-character  *)
(* strings so that the validators can be modelled by what they compute.    *)
(***************************************************************************)
EXTENDS Integers, Sequences, FiniteSets, TLC

VARIABLES store, nextId, pending, unhandled, pc, req, inst, resp, calls, deleted, before

vars == <<store, nextId, pending, unhandled, pc, req, inst, resp, calls, deleted, before>>

(***************************************************************************)
(* Bounds                                                                  *)
(***************************************************************************)
\* number of primary keys the model lets the table hold
MaxId == 2
\* number of request slots (connections) of the server
MaxReq == 2

Ids == 1..MaxId
Reqs == 1..MaxReq

(***************************************************************************)
(* JSON values                                                             *)
(***************************************************************************)
Undef == [t |-> "undef", s |-> <<>>, n |-> 0, b |-> FALSE]
Null == [t |-> "null", s |-> <<>>, n |-> 0, b |-> FALSE]
Str(chars) == [t |-> "str", s |-> chars, n |-> 0, b |-> FALSE]
Num(k) == [t |-> "num", s |-> <<>>, n |-> k, b |-> FALSE]
Bool(v) == [t |-> "bool", s |-> <<>>, n |-> 0, b |-> v]

DigitSeq == <<"0", "1", "2", "3", "4", "5", "6", "7", "8", "9">>
Digits == {DigitSeq[i] : i \in 1..10}
DigitVal(c) == (CHOOSE i \in 1..10 : DigitSeq[i] = c) - 1

\* String(n) of JavaScript for a natural number
RECURSIVE NatToStr(_)
NatToStr(k) == IF k < 10 THEN <<DigitSeq[k + 1]>>
               ELSE NatToStr(k \div 10) \o <<DigitSeq[(k % 10) + 1]>>

\* String(n) of JavaScript for an integer
IntToStr(k) == IF k < 0 THEN <<"-">> \o NatToStr(0 - k) ELSE NatToStr(k)

AllDigits(chars) == \A i \in 1..Len(chars) : chars[i] \in Digits

RECURSIVE DigitsToNat(_)
DigitsToNat(chars) == IF chars = <<>> THEN 0
                      ELSE 10 * DigitsToNat(SubSeq(chars, 1, Len(chars) - 1))
                           + DigitVal(chars[Len(chars)])

StripSign(chars) == IF chars # <<>> /\ chars[1] \in {"+", "-"} THEN Tail(chars) ELSE chars

RECURSIVE TrimLeft(_)
TrimLeft(chars) == IF chars # <<>> /\ chars[1] = " " THEN TrimLeft(Tail(chars)) ELSE chars

RECURSIVE TrimRight(_)
TrimRight(chars) == IF chars # <<>> /\ chars[Len(chars)] = " "
                    THEN TrimRight(SubSeq(chars, 1, Len(chars) - 1)) ELSE chars

Trim(chars) == TrimRight(TrimLeft(chars))

\* ToNumber of JavaScript on a JSON value, on integer-valued input;
\* nan marks NaN
NaN == [nan |-> TRUE, n |-> 0]
Number(k) == [nan |-> FALSE, n |-> k]
StringToNumber(chars) ==
    LET body == Trim(chars)
        mag == StripSign(body)
    IN  IF body = <<>> THEN Number(0)
        ELSE IF mag # <<>> /\ AllDigits(mag)
             THEN IF body[1] = "-" THEN Number(0 - DigitsToNat(mag))
                  ELSE Number(DigitsToNat(mag))
             ELSE NaN
ToNumber(v) == CASE v.t = "undef" -> NaN
                 [] v.t = "null" -> Number(0)
                 [] v.t = "bool" -> Number(IF v.b THEN 1 ELSE 0)
                 [] v.t = "num" -> Number(v.n)
                 [] v.t = "str" -> StringToNumber(v.s)

(***************************************************************************)
(* express-validator: value stringification and the standard validators    *)
(***************************************************************************)
\* express-validator's toString: null, undefined -> '', otherwise String(v)
toString(v) == CASE v.t \in {"undef", "null"} -> <<>>
                 [] v.t = "str" -> v.s
                 [] v.t = "num" -> IntToStr(v.n)
                 [] v.t = "bool" -> IF v.b THEN <<"t", "r", "u", "e">>
                                    ELSE <<"f", "a", "l", "s", "e">>

\* validator.js isInt, default options: /^[-+]?[0-9]+$/
isInt(chars) == LET mag == StripSign(chars) IN mag # <<>> /\ AllDigits(mag)

\* validator.js isNumeric, default options: /^[+-]?([0-9]*[.])?[0-9]+$/
isNumeric(chars) ==
    LET mag == StripSign(chars)
        dots == {i \in 1..Len(mag) : mag[i] = "."}
    IN  \/ mag # <<>> /\ AllDigits(mag)
        \/ /\ Cardinality(dots) = 1
           /\ LET d == CHOOSE i \in dots : TRUE
              IN  /\ d < Len(mag)
                  /\ AllDigits(SubSeq(mag, 1, d - 1))
                  /\ AllDigits(SubSeq(mag, d + 1, Len(mag)))

\* validator.js isEmpty, default options (ignore_whitespace: false)
isEmpty(chars) == Len(chars) = 0

\* validator.js isBoolean, default options (strict list)
isBoolean(chars) == chars \in {<<"t", "r", "u", "e">>, <<"f", "a", "l", "s", "e">>,
                               <<"1">>, <<"0">>}

\* the custom validator of the price chains: value => value > 0
priceIsPositive(v) == LET k == ToNumber(v) IN ~k.nan /\ k.n > 0

(***************************************************************************)
(* Requests, rows, responses                                               *)
(***************************************************************************)
EmptyBody == [id |-> Undef, name |-> Undef, price |-> Undef, availability |-> Undef]
NoReq == [op |-> "none", params |-> [id |-> Undef], body |-> EmptyBody]

AbsentRow == [present |-> FALSE, name |-> Undef, price |-> Undef, availability |-> Undef]
Row(name, price, availability) ==
    [present |-> TRUE, name |-> name, price |-> price, availability |-> availability]

NoResp == [status |-> 0, keys |-> {}, errors |-> <<>>, error |-> "", data |-> <<>>, text |-> ""]
\* res.status(400).json({ errors: [...] })
ErrorsResp(errors) == [NoResp EXCEPT !.status = 400, !.keys = {"errors"}, !.errors = errors]
\* res.status(code).json({ error: message })
ErrorResp(code, message) == [NoResp EXCEPT !.status = code, !.keys = {"error"}, !.error = message]
\* res.status(code).json({ data: [...products] })
DataResp(code, products) == [NoResp EXCEPT !.status = code, !.keys = {"data"}, !.data = products]
\* res.json({ data: 'text' })
TextResp(code, text) == [NoResp EXCEPT !.status = code, !.keys = {"data"}, !.text = text]

\* the JSON form of a row
Product(id, row) ==
    [id |-> id, name |-> row.name, price |-> row.price, availability |-> row.availability]

(***************************************************************************)
(* Routing table: the validation chains of each route, in declaration      *)
(* order                                                                   *)
(***************************************************************************)
\* the id chain with its isInt() check left out
idChain_unchecked ==
    [location |-> "params", path |-> "id", validators |-> <<>>]
idChain ==
    [location |-> "params", path |-> "id",
     validators |-> <<[kind |-> "isInt", msg |-> "ID no válido"]>>]
nameChain ==
    [location |-> "body", path |-> "name",
     validators |-> <<[kind |-> "notEmpty",
                       msg |-> "El nombre del producto no puede estar vacío"]>>]
\* the price chain without its notEmpty() link
priceChain_twoLinks ==
    [location |-> "body", path |-> "price",
     validators |-> <<[kind |-> "isNumeric", msg |-> "Valor no válido"],
                      [kind |-> "custom", msg |-> "El precio no es válido"]>>]
priceChain ==
    [location |-> "body", path |-> "price",
     validators |-> <<[kind |-> "isNumeric", msg |-> "Valor no válido"],
                      [kind |-> "notEmpty",
                       msg |-> "El precio del producto no puede estar vacío"],
                      [kind |-> "custom", msg |-> "El precio no es válido"]>>]
availabilityChain ==
    [location |-> "body", path |-> "availability",
     validators |-> <<[kind |-> "isBoolean",
                       msg |-> "Valor para la disponibilidad no válida "]>>]

Ops == {"GET /", "GET /:id", "POST /", "PUT /:id", "PATCH /:id", "DELETE /:id"}
IdOps == {"GET /:id", "PUT /:id", "PATCH /:id", "DELETE /:id"}

router(op) == CASE op = "GET /" -> <<>>
                [] op = "GET /:id" -> <<idChain>>
                [] op = "POST /" -> <<nameChain, priceChain>>
                [] op = "PUT /:id" -> <<idChain, nameChain, priceChain, availabilityChain>>
                [] op = "PATCH /:id" -> <<idChain>>
                [] op = "DELETE /:id" -> <<idChain>>

\* PUT mounted without handleInputErrors
Guarded_putUnguarded(op) == op \notin {"GET /", "PUT /:id"}
\* routes that mount handleInputErrors before the resource handler
Guarded(op) == op # "GET /"

(***************************************************************************)
(* Running the chains                                                      *)
(***************************************************************************)
FieldValue(rq, chain) == IF chain.location = "params" THEN rq.params[chain.path]
                         ELSE rq.body[chain.path]

\* one validator of a chain against the field's value: standard validators
\* see the stringified value, the custom one the raw value
Passes(kind, v) == CASE kind = "isInt" -> isInt(toString(v))
                     [] kind = "notEmpty" -> ~isEmpty(toString(v))
                     [] kind = "isNumeric" -> isNumeric(toString(v))
                     [] kind = "isBoolean" -> isBoolean(toString(v))
                     [] kind = "custom" -> priceIsPositive(v)

\* a chain runs all its validators (no bail) and records one error per failure
RECURSIVE runValidators(_, _, _)
runValidators(validators, chain, v) ==
    IF validators = <<>> THEN <<>>
    ELSE (IF Passes(validators[1].kind, v) THEN <<>>
          ELSE <<[msg |-> validators[1].msg, path |-> chain.path,
                  location |-> chain.location]>>)
         \o runValidators(Tail(validators), chain, v)

\* validationResult(req).array(): the errors of the chains in mount order
RECURSIVE validationResult(_, _)
validationResult(chains, rq) ==
    IF chains = <<>> THEN <<>>
    ELSE runValidators(chains[1].validators, chains[1], FieldValue(rq, chains[1]))
         \o validationResult(Tail(chains), rq)

\* the middleware between the chains and the resource handler: it answers
\* 400 with the collected errors, or calls next()
handleInputErrors(errors) ==
    IF errors # <<>> THEN [next |-> FALSE, resp |-> ErrorsResp(errors)]
    ELSE [next |-> TRUE, resp |-> NoResp]

(***************************************************************************)
(* Request inputs                                                          *)
(***************************************************************************)
Mouse == <<"M", "o", "u", "s", "e">>
Hola == <<"H", "o", "l", "a">>
NotValidUrl == <<"n", "o", "t", "-", "v", "a", "l", "i", "d">>

NameInputs == {Undef, Str(<<>>), Str(<<" ">>), Str(Mouse)}
PriceInputs == {Undef, Num(0), Num(5), Str(<<"7">>), Str(Hola)}
AvailabilityInputs == {Undef, Null, Bool(TRUE), Bool(FALSE)}
BodyIdInputs == {Undef, Num(1)}
ParamIdInputs == {Str(IntToStr(i)) : i \in Ids} \cup {Str(NotValidUrl)}

ValidNames == {Str(<<" ">>), Str(Mouse)}
ValidPrices == {Num(5), Str(<<"7">>)}

\* the name and price pairs sent in bodies that pass both chains
AcceptedPairs == {<<Str(Mouse), Num(5)>>, <<Str(<<" ">>), Str(<<"7">>)>>}

\* every combination of the inputs in which a rule on name or price fails,
\* and the accepted pairs with every availability; no rule reads the body's
\* id, which varies on the bodies that a create lets through
Bodies == {b \in [id : BodyIdInputs, name : NameInputs, price : PriceInputs,
                  availability : AvailabilityInputs] :
              /\ (b.name \in ValidNames /\ b.price \in ValidPrices)
                    => <<b.name, b.price>> \in AcceptedPairs
              /\ b.id # Undef => (b.name \in ValidNames /\ b.price \in ValidPrices)}
\* bodies sent along with a PATCH, which declares none
PatchBodies == {b \in Bodies : b.id = Undef /\ b.name = Undef /\ b.price = Undef}

Requests ==
    {[op |-> "GET /", params |-> [id |-> Undef], body |-> EmptyBody]}
    \cup {[op |-> o, params |-> [id |-> i], body |-> EmptyBody] :
              o \in {"GET /:id", "DELETE /:id"}, i \in ParamIdInputs}
    \cup {[op |-> "POST /", params |-> [id |-> Undef], body |-> b] : b \in Bodies}
    \cup {[op |-> "PUT /:id", params |-> [id |-> i], body |-> b] :
              i \in ParamIdInputs, b \in Bodies}
    \cup {[op |-> "PATCH /:id", params |-> [id |-> i], body |-> b] :
              i \in ParamIdInputs, b \in PatchBodies}

(***************************************************************************)
(* The products table behind the Product model                             *)
(***************************************************************************)
Fields == {"name", "price", "availability"}

\* the column default the model declares for availability
DefaultAvailability == Bool(TRUE)

\* a FLOAT column holds the number its input denotes
ToFloat(v) == Num(ToNumber(v).n)

\* the primary key a path parameter or body id denotes
Pk(v) == ToNumber(v).n

\* a lookup that reads the first row whatever the key
findByPk_first(table, idv) == table[1]
\* Product.findByPk(id)
findByPk(table, idv) == IF Pk(idv) \in Ids THEN table[Pk(idv)] ELSE AbsentRow

\* Product.findAll({ order: [['id', 'DESC']] }): the present rows from the
\* highest id down
RECURSIVE findAllFrom(_, _)
findAllFrom(table, k) ==
    IF k = 0 THEN <<>>
    ELSE (IF table[k].present THEN <<Product(k, table[k])>> ELSE <<>>)
         \o findAllFrom(table, k - 1)
\* the present rows from the lowest id up
findAll_ascending(table) ==
    LET rows == findAllFrom(table, MaxId)
    IN  [k \in 1..Len(rows) |-> rows[Len(rows) + 1 - k]]
findAll(table) == findAllFrom(table, MaxId)

\* a create that passes the price on and drops the name
buildRow_nameless(body) ==
    Row(Undef, ToFloat(body.price),
        IF body.availability = Undef THEN DefaultAvailability ELSE body.availability)

\* the row Product.create(body) builds: the body's values, the column
\* default where the body has none
buildRow(body) ==
    Row(body.name, ToFloat(body.price),
        IF body.availability = Undef THEN DefaultAvailability ELSE body.availability)

\* the primary key of the row an INSERT makes: the body's id when it has
\* one, the next value of the sequence otherwise
insertId(body, seq) == IF body.id = Undef THEN seq ELSE Pk(body.id)

\* an update that leaves the availability of the instance alone
setValues_keepAvailability(row, body) ==
    [row EXCEPT !.name = body.name, !.price = ToFloat(body.price)]

\* instance.set(values): the DB-typed values of the body over the instance
setValues(row, body) ==
    [row EXCEPT !.name = body.name, !.price = ToFloat(body.price),
                !.availability = body.availability]

\* the fields set() marks as changed: those whose new raw value is not
\* identical to the value read
changedFields(row, body) == {f \in Fields : body[f] # row[f]}

\* UPDATE ... SET fields WHERE id: no row, no effect
applyUpdate(table, id, values, fields) ==
    IF table[id].present
    THEN [table EXCEPT ![id] = [f \in DOMAIN table[id] |->
                                   IF f \in fields THEN values[f] ELSE table[id][f]]]
    ELSE table

\* the negation left out
Not_same(v) == v

\* JavaScript's !value on a stored availability
Not(v) == Bool(~(v.t = "bool" /\ v.b))

\* the existence check left out
notFound_never(product) == FALSE
\* if (!product)
notFound(product) == ~product.present

\* the table without rows
NoTable == [i \in Ids |-> AbsentRow]

NoInst == [id |-> 0, row |-> AbsentRow, changed |-> {}]

DatabaseError == ErrorResp(500, "Database error")
NotFound == ErrorResp(404, "Producto no encontrado")

(***************************************************************************)
(* State machine                                                           *)
(***************************************************************************)
Init ==
    /\ store = NoTable
    /\ nextId = 1
    /\ pending = {}
    /\ unhandled = FALSE
    /\ pc = [r \in Reqs |-> "idle"]
    /\ req = [r \in Reqs |-> NoReq]
    /\ inst = [r \in Reqs |-> NoInst]
    /\ resp = [r \in Reqs |-> NoResp]
    /\ calls = [r \in Reqs |-> <<>>]
    /\ deleted = {}
    /\ before = NoTable

\* before is the table as it was when the toggles now in flight began to
\* arrive, and empty once a request of another route has arrived or a
\* request has left: the value a sequence of toggles starts from

Called(r, name, ok) == calls' = [calls EXCEPT ![r] = Append(@, [call |-> name, ok |-> ok])]

Answer(r, response) ==
    /\ resp' = [resp EXCEPT ![r] = response]
    /\ pc' = [pc EXCEPT ![r] = "respond"]

\* a request arrives while the server is idle and passes through the chains
\* of its route and handleInputErrors
Receive(r) ==
    /\ ~unhandled
    /\ \A q \in Reqs : pc[q] = "idle"
    /\ \E rq \in Requests :
          LET errors == validationResult(router(rq.op), rq)
              verdict == IF Guarded(rq.op) THEN handleInputErrors(errors)
                         ELSE [next |-> TRUE, resp |-> NoResp]
          IN  /\ (verdict.next /\ rq.op = "POST /" /\ rq.body.id = Undef)
                    => nextId <= MaxId
              /\ req' = [req EXCEPT ![r] = rq]
              /\ resp' = [resp EXCEPT ![r] = verdict.resp]
              /\ pc' = [pc EXCEPT ![r] = IF verdict.next THEN "handler" ELSE "done"]
              /\ before' = IF rq.op = "PATCH /:id" THEN store ELSE NoTable
    /\ UNCHANGED <<store, nextId, pending, unhandled, inst, calls, deleted>>

getProducts(r) ==
    /\ ~unhandled
    /\ pc[r] = "handler" /\ req[r].op = "GET /"
    /\ \E ok \in BOOLEAN :
          /\ Called(r, "findAll", ok)
          /\ Answer(r, IF ok THEN DataResp(200, findAll(store)) ELSE DatabaseError)
    /\ UNCHANGED <<store, nextId, pending, unhandled, req, inst, deleted, before>>

getProductsById(r) ==
    /\ ~unhandled
    /\ pc[r] = "handler" /\ req[r].op = "GET /:id"
    /\ \E ok \in BOOLEAN :
          LET id == req[r].params.id
              product == findByPk(store, id)
          IN  /\ Called(r, "findByPk", ok)
              /\ Answer(r, IF ~ok THEN DatabaseError
                           ELSE IF notFound(product) THEN NotFound
                           ELSE DataResp(200, <<Product(Pk(id), product)>>))
    /\ UNCHANGED <<store, nextId, pending, unhandled, req, inst, deleted, before>>

createProduct(r) ==
    /\ ~unhandled
    /\ pc[r] = "handler" /\ req[r].op = "POST /"
    /\ \E ok \in BOOLEAN :
          LET body == req[r].body
              id == insertId(body, nextId)
              inserted == ok /\ id \in Ids /\ ~store[id].present
          IN  /\ Called(r, "create", inserted)
              /\ nextId' = IF ok /\ body.id = Undef THEN nextId + 1 ELSE nextId
              /\ store' = IF inserted THEN [store EXCEPT ![id] = buildRow(body)] ELSE store
              /\ Answer(r, IF inserted THEN DataResp(201, <<Product(id, buildRow(body))>>)
                           ELSE DatabaseError)
    /\ UNCHANGED <<pending, unhandled, req, inst, deleted, before>>

\* updateProduct up to its await: the lookup, then update(req.body), which
\* sets the values on the instance and sends its own write without being
\* awaited, then the call of save()
updateProduct_findByPk(r) ==
    /\ ~unhandled
    /\ pc[r] = "handler" /\ req[r].op = "PUT /:id"
    /\ \E ok \in BOOLEAN :
          LET id == req[r].params.id
              body == req[r].body
              product == findByPk(store, id)
          IN  IF ~ok \/ notFound(product)
              THEN /\ Called(r, "findByPk", ok)
                   /\ Answer(r, IF ~ok THEN DatabaseError ELSE NotFound)
                   /\ UNCHANGED <<inst, pending>>
              ELSE /\ calls' = [calls EXCEPT ![r] = @ \o <<[call |-> "findByPk", ok |-> TRUE],
                                                          [call |-> "update", ok |-> TRUE]>>]
                   /\ inst' = [inst EXCEPT ![r] = [id |-> Pk(id),
                                                   row |-> setValues(product, body),
                                                   changed |-> changedFields(product, body)]]
                   /\ pending' = pending \cup {[by |-> r, id |-> Pk(id),
                                             row |-> setValues(product, body)]}
                   /\ pc' = [pc EXCEPT ![r] = "save"]
                   /\ UNCHANGED resp
    /\ UNCHANGED <<store, nextId, unhandled, req, deleted, before>>

\* instance.save(): an UPDATE of the changed fields; no query when none is
save(r, ok) ==
    LET done == ok \/ inst[r].changed = {}
    IN  /\ Called(r, "save", done)
        /\ store' = IF ok /\ inst[r].changed # {}
                    THEN applyUpdate(store, inst[r].id, inst[r].row, inst[r].changed)
                    ELSE store
        /\ Answer(r, IF done THEN DataResp(200, <<Product(inst[r].id, inst[r].row)>>)
                     ELSE DatabaseError)

updateProduct_save(r) ==
    /\ ~unhandled
    /\ pc[r] = "save" /\ req[r].op = "PUT /:id"
    /\ \E ok \in BOOLEAN : save(r, ok)
    /\ UNCHANGED <<nextId, pending, unhandled, req, inst, deleted, before>>

\* the write of an un-awaited update() reaches the table, or fails with
\* nobody awaiting it: the rejection is unhandled
update_settles ==
    \E w \in pending : \E ok \in BOOLEAN :
        /\ ~unhandled
        /\ pending' = pending \ {w}
        /\ store' = IF ok THEN applyUpdate(store, w.id, w.row, Fields) ELSE store
        /\ unhandled' = ~ok
        /\ UNCHANGED <<nextId, pc, req, inst, resp, calls, deleted, before>>

updateAvailability_findByPk(r) ==
    /\ ~unhandled
    /\ pc[r] = "handler" /\ req[r].op = "PATCH /:id"
    /\ \E ok \in BOOLEAN :
          LET id == req[r].params.id
              product == findByPk(store, id)
          IN  /\ Called(r, "findByPk", ok)
              /\ IF ~ok \/ notFound(product)
                 THEN /\ Answer(r, IF ~ok THEN DatabaseError ELSE NotFound)
                      /\ UNCHANGED inst
                 ELSE /\ inst' = [inst EXCEPT ![r] =
                              [id |-> Pk(id),
                               row |-> [product EXCEPT !.availability = Not(product.availability)],
                               changed |-> {"availability"}]]
                      /\ pc' = [pc EXCEPT ![r] = "save"]
                      /\ UNCHANGED resp
    /\ UNCHANGED <<store, nextId, pending, unhandled, req, deleted, before>>

updateAvailability_save(r) ==
    /\ ~unhandled
    /\ pc[r] = "save" /\ req[r].op = "PATCH /:id"
    /\ \E ok \in BOOLEAN : save(r, ok)
    /\ UNCHANGED <<nextId, pending, unhandled, req, inst, deleted, before>>

deleteProduct_findByPk(r) ==
    /\ ~unhandled
    /\ pc[r] = "handler" /\ req[r].op = "DELETE /:id"
    /\ \E ok \in BOOLEAN :
          LET id == req[r].params.id
              product == findByPk(store, id)
          IN  /\ Called(r, "findByPk", ok)
              /\ IF ~ok \/ notFound(product)
                 THEN /\ Answer(r, IF ~ok THEN DatabaseError ELSE NotFound)
                      /\ UNCHANGED inst
                 ELSE /\ inst' = [inst EXCEPT ![r] = [id |-> Pk(id), row |-> product,
                                                      changed |-> {}]]
                      /\ pc' = [pc EXCEPT ![r] = "destroy"]
                      /\ UNCHANGED resp
    /\ UNCHANGED <<store, nextId, pending, unhandled, req, deleted, before>>

deleteProduct_destroy(r) ==
    /\ ~unhandled
    /\ pc[r] = "destroy" /\ req[r].op = "DELETE /:id"
    /\ \E ok \in BOOLEAN :
          /\ Called(r, "destroy", ok)
          /\ store' = IF ok THEN [store EXCEPT ![inst[r].id] = AbsentRow] ELSE store
          /\ deleted' = IF ok THEN deleted \cup {inst[r].id} ELSE deleted
          /\ Answer(r, IF ok THEN TextResp(200, "Producto eliminado") ELSE DatabaseError)
    /\ UNCHANGED <<nextId, pending, unhandled, req, inst, before>>

\* the prepared response leaves the server
Respond(r) ==
    /\ ~unhandled
    /\ pc[r] = "respond"
    /\ pc' = [pc EXCEPT ![r] = "done"]
    /\ UNCHANGED <<store, nextId, pending, unhandled, req, inst, resp, calls, deleted, before>>

\* the exchange is over and the slot is free again; the write update() sent
\* ahead of save()'s has settled by then
Close(r) ==
    /\ ~unhandled
    /\ pc[r] = "done"
    /\ \A w \in pending : w.by # r
    /\ pc' = [pc EXCEPT ![r] = "idle"]
    /\ req' = [req EXCEPT ![r] = NoReq]
    /\ inst' = [inst EXCEPT ![r] = NoInst]
    /\ resp' = [resp EXCEPT ![r] = NoResp]
    /\ calls' = [calls EXCEPT ![r] = <<>>]
    /\ before' = NoTable
    /\ UNCHANGED <<store, nextId, pending, unhandled, deleted>>

\* requests are served one at a time, on the first slot; an unhandled
\* rejection ends the process: every action waits on ~unhandled
Next ==
    \/ Receive(1)
    \/ \E r \in Reqs : getProducts(r)
    \/ \E r \in Reqs : getProductsById(r)
    \/ \E r \in Reqs : createProduct(r)
    \/ \E r \in Reqs : updateProduct_findByPk(r)
    \/ \E r \in Reqs : updateProduct_save(r)
    \/ update_settles
    \/ \E r \in Reqs : updateAvailability_findByPk(r)
    \/ \E r \in Reqs : updateAvailability_save(r)
    \/ \E r \in Reqs : deleteProduct_findByPk(r)
    \/ \E r \in Reqs : deleteProduct_destroy(r)
    \/ \E r \in Reqs : Respond(r)
    \/ \E r \in Reqs : Close(r)

Spec == Init /\ [][Next]_vars

(***************************************************************************)
(* Overlapping requests: the server takes a second request while the       *)
(* handler of the first has not started, and the steps of the two handlers *)
(* interleave at their awaits                                              *)
(***************************************************************************)
\* two full-update bodies that differ in every field
OverlapPutBodies ==
    {[id |-> Undef, name |-> Str(Mouse), price |-> Num(5), availability |-> Bool(FALSE)],
     [id |-> Undef, name |-> Str(<<" ">>), price |-> Str(<<"7">>),
      availability |-> Bool(TRUE)]}

\* the requests sent in overlap: every route, on every id, with bodies that
\* pass the chains
OverlapRequests ==
    {rq \in Requests :
        /\ rq.body.id = Undef
        /\ rq.op = "POST /" => rq.body = [EmptyBody EXCEPT !.name = Str(Mouse),
                                                           !.price = Num(5)]
        /\ rq.op = "PUT /:id" => (rq.params.id \in {Str(IntToStr(i)) : i \in Ids}
                                    /\ rq.body \in OverlapPutBodies)
        /\ rq.op = "PATCH /:id" => (rq.params.id \in {Str(IntToStr(i)) : i \in Ids}
                                      /\ rq.body = EmptyBody)}

\* a request arrives on the first free slot, while the server is idle or
\* beside one request whose handler has not started, and passes through the
\* chains of its route and handleInputErrors
Arrive(r) ==
    /\ ~unhandled
    /\ pc[r] = "idle"
    /\ \A q \in Reqs : q < r => pc[q] # "idle"
    /\ \A q \in Reqs \ {r} : pc[q] \in {"idle", "handler"}
    /\ Cardinality({q \in Reqs : pc[q] # "idle"}) <= 1
    /\ \E rq \in OverlapRequests :
          LET errors == validationResult(router(rq.op), rq)
              verdict == IF Guarded(rq.op) THEN handleInputErrors(errors)
                         ELSE [next |-> TRUE, resp |-> NoResp]
              creating == {q \in Reqs : pc[q] = "handler" /\ req[q].op = "POST /"}
          IN  /\ (verdict.next /\ rq.op = "POST /")
                    => nextId + Cardinality(creating) <= MaxId
              /\ req' = [req EXCEPT ![r] = rq]
              /\ resp' = [resp EXCEPT ![r] = verdict.resp]
              /\ pc' = [pc EXCEPT ![r] = IF verdict.next THEN "handler" ELSE "done"]
              /\ before' = IF rq.op # "PATCH /:id" THEN NoTable
                           ELSE IF \A q \in Reqs : pc[q] = "idle" THEN store
                           ELSE before
    /\ UNCHANGED <<store, nextId, pending, unhandled, inst, calls, deleted>>

NextConcurrent ==
    \/ \E r \in Reqs : Arrive(r)
    \/ \E r \in Reqs : getProducts(r)
    \/ \E r \in Reqs : getProductsById(r)
    \/ \E r \in Reqs : createProduct(r)
    \/ \E r \in Reqs : updateProduct_findByPk(r)
    \/ \E r \in Reqs : updateProduct_save(r)
    \/ update_settles
    \/ \E r \in Reqs : updateAvailability_findByPk(r)
    \/ \E r \in Reqs : updateAvailability_save(r)
    \/ \E r \in Reqs : deleteProduct_findByPk(r)
    \/ \E r \in Reqs : deleteProduct_destroy(r)
    \/ \E r \in Reqs : Respond(r)
    \/ \E r \in Reqs : Close(r)

Concurrent == Init /\ [][NextConcurrent]_vars

(***************************************************************************)
(* Repeated reads: the client sends a GET that has been answered once more *)
(***************************************************************************)
Reads == {"GET /", "GET /:id"}

\* the request of the first slot, an answered GET, arrives again on the next
\* free slot, before any other request
Repeat(r) ==
    /\ ~unhandled
    /\ r > 1 /\ pc[r] = "idle"
    /\ \A q \in 2..(r - 1) : pc[q] # "idle"
    /\ pc[1] = "done" /\ req[1].op \in Reads
    /\ LET rq == req[1]
           errors == validationResult(router(rq.op), rq)
           verdict == IF Guarded(rq.op) THEN handleInputErrors(errors)
                      ELSE [next |-> TRUE, resp |-> NoResp]
       IN  /\ req' = [req EXCEPT ![r] = rq]
           /\ resp' = [resp EXCEPT ![r] = verdict.resp]
           /\ pc' = [pc EXCEPT ![r] = IF verdict.next THEN "handler" ELSE "done"]
    /\ UNCHANGED <<store, nextId, pending, unhandled, inst, calls, deleted, before>>

NextRepeated ==
    \/ Next
    \/ \E r \in Reqs : Repeat(r)

Repeated == Init /\ [][NextRepeated]_vars

(***************************************************************************)
(* Vocabulary of the properties                                            *)
(***************************************************************************)
InFlight(r) == pc[r] # "idle"
Answered(r) == pc[r] \in {"respond", "done"}
CallNames(r) == {calls[r][i].call : i \in 1..Len(calls[r])}
AllCallsOk(r) == \A i \in 1..Len(calls[r]) : calls[r][i].ok

\* the rules of a route, numbered in declaration order
RECURSIVE RulesBefore(_, _)
RulesBefore(chains, c) ==
    IF c <= 1 THEN 0 ELSE RulesBefore(chains, c - 1) + Len(chains[c - 1].validators)
NumRules(op) == RulesBefore(router(op), Len(router(op)) + 1)
RuleAt(op, i) ==
    LET chains == router(op)
        c == CHOOSE k \in 1..Len(chains) :
                 /\ RulesBefore(chains, k) < i
                 /\ i <= RulesBefore(chains, k) + Len(chains[k].validators)
    IN  [chain |-> chains[c], validator |-> chains[c].validators[i - RulesBefore(chains, c)]]
RuleFails(rq, i) ==
    LET rule == RuleAt(rq.op, i)
    IN  ~Passes(rule.validator.kind, FieldValue(rq, rule.chain))
FailingRules(rq) == {i \in 1..NumRules(rq.op) : RuleFails(rq, i)}
SomeRuleFails(rq) == \E i \in 1..NumRules(rq.op) : RuleFails(rq, i)
KthOf(indices, k) == CHOOSE i \in indices : Cardinality({j \in indices : j < i}) = k - 1

IntegerIds == {Str(IntToStr(i)) : i \in Ids}
ValidPutBody(b) ==
    b.name \in ValidNames /\ b.price \in ValidPrices /\ b.availability.t = "bool"

(***************************************************************************)
(* C1: on a route with validation rules, a request that fails at least     *)
(* one rule is answered 400 with a body {errors: [...]}, its resource      *)
(* handler is never entered (no persistence call, no instance), and no     *)
(* step taken while the request occupies the server changes the table.     *)
(***************************************************************************)
C1_Rejected(r) ==
    /\ pc[r] = "done"
    /\ resp[r].status = 400
    /\ resp[r].keys = {"errors"}
    /\ resp[r].errors # <<>>
    /\ calls[r] = <<>>
    /\ inst[r] = NoInst
C1_StoreKept ==
    \A r \in Reqs :
        (pc'[r] # "idle" /\ req'[r].op # "GET /" /\ SomeRuleFails(req'[r]))
            => (store' = store /\ nextId' = nextId /\ pending' = pending)
C1_ValidationFailureIs400 ==
    /\ [](\A r \in Reqs : (InFlight(r) /\ req[r].op # "GET /" /\ SomeRuleFails(req[r]))
                             => C1_Rejected(r))
    /\ [][C1_StoreKept]_vars
\* a PUT with a failing rule has been answered while a product is stored
C1_Witness ==
    \E r \in Reqs :
        /\ pc[r] = "done" /\ req[r].op = "PUT /:id" /\ resp[r].status = 400
        /\ \E i \in Ids : store[i].present

(***************************************************************************)
(* C2: validation accumulates.  The errors of a response are exactly the   *)
(* failing rules of the route, one entry each, in declaration order, each  *)
(* with the message and field of its rule; the counts the contract tests   *)
(* name come out: POST {} 4, POST price 0 1, POST price "Hola" 2,          *)
(* PUT {} on an integer id 5, PUT price 0 1 ('El precio no es válido').    *)
(***************************************************************************)
C2_OneEntryPerFailingRule(rq, errors) ==
    LET failing == FailingRules(rq)
    IN  /\ Len(errors) = Cardinality(failing)
        /\ \A k \in 1..Len(errors) :
              LET rule == RuleAt(rq.op, KthOf(failing, k))
              IN  /\ errors[k].msg = rule.validator.msg
                  /\ errors[k].path = rule.chain.path
C2_Counts(rq, errors) ==
    /\ (rq.op = "POST /" /\ rq.body = EmptyBody) => Len(errors) = 4
    /\ (rq.op = "POST /" /\ rq.body.name \in ValidNames /\ rq.body.price = Num(0))
          => Len(errors) = 1
    /\ (rq.op = "POST /" /\ rq.body.name \in ValidNames /\ rq.body.price = Str(Hola))
          => Len(errors) = 2
    /\ (rq.op = "PUT /:id" /\ rq.params.id \in IntegerIds /\ rq.body = EmptyBody)
          => Len(errors) = 5
    /\ (rq.op = "PUT /:id" /\ rq.params.id \in IntegerIds /\ rq.body.name \in ValidNames
            /\ rq.body.availability.t = "bool" /\ rq.body.price = Num(0))
          => (Len(errors) = 1 /\ errors[1].msg = "El precio no es válido")
C2_ErrorsAccumulate ==
    \A r \in Reqs :
        (InFlight(r) /\ req[r].op # "GET /")
            => /\ C2_OneEntryPerFailingRule(req[r], resp[r].errors)
               /\ C2_Counts(req[r], resp[r].errors)
\* an empty PUT body on an integer id has collected five errors
C2_Witness ==
    \E r \in Reqs :
        /\ pc[r] = "done" /\ req[r].op = "PUT /:id" /\ req[r].body = EmptyBody
        /\ req[r].params.id \in IntegerIds
        /\ Len(resp[r].errors) = 5

(***************************************************************************)
(* C3: on GET /:id, PUT /:id with an otherwise valid body, PATCH /:id and  *)
(* DELETE /:id, a path id that is not an integer is answered 400 with      *)
(* exactly one error, 'ID no válido', and the table is never looked up.    *)
(***************************************************************************)
C3_NonIntegerIdIs400 ==
    \A r \in Reqs :
        (/\ InFlight(r)
         /\ req[r].op \in IdOps
         /\ req[r].params.id \notin IntegerIds
         /\ req[r].op = "PUT /:id" => ValidPutBody(req[r].body))
            => /\ pc[r] = "done"
               /\ resp[r].status = 400
               /\ Len(resp[r].errors) = 1
               /\ resp[r].errors[1].msg = "ID no válido"
               /\ calls[r] = <<>>
\* a DELETE on a non-integer id has been answered while a product is stored
C3_Witness ==
    \E r \in Reqs :
        /\ pc[r] = "done" /\ req[r].op = "DELETE /:id"
        /\ req[r].params.id = Str(NotValidUrl)
        /\ resp[r].status = 400
        /\ \E i \in Ids : store[i].present

(***************************************************************************)
(* C4: get-by-id, full update, toggle and delete: when the lookup succeeds *)
(* and finds no row, the answer is 404 {error: 'Producto no encontrado'},  *)
(* the lookup is the only persistence call of the request (no update, save *)
(* or destroy), and the table is as it was.                                *)
(***************************************************************************)
C4_LookupStep(r) ==
    /\ pc[r] = "handler" /\ req[r].op \in IdOps
    /\ calls'[r] # calls[r]
    /\ calls'[r][1] = [call |-> "findByPk", ok |-> TRUE]
C4_AbsentStep ==
    \A r \in Reqs :
        (C4_LookupStep(r) /\ ~store[Pk(req[r].params.id)].present)
            => /\ pc'[r] = "respond"
               /\ resp'[r].status = 404
               /\ resp'[r].keys = {"error"}
               /\ resp'[r].error = "Producto no encontrado"
               /\ calls'[r] = <<[call |-> "findByPk", ok |-> TRUE]>>
               /\ store' = store /\ pending' = pending /\ nextId' = nextId
C4_AbsentIs404 ==
    /\ [][C4_AbsentStep]_vars
    /\ [](\A r \in Reqs : (Answered(r) /\ resp[r].status = 404)
                             => (CallNames(r) = {"findByPk"} /\ inst[r] = NoInst))
    /\ [][\A r \in Reqs : (Answered(r) /\ resp[r].status = 404) => store' = store]_vars
\* a full update has been answered 404 after a lookup that found no row
C4_Witness ==
    \E r \in Reqs :
        /\ pc[r] = "done" /\ req[r].op = "PUT /:id" /\ resp[r].status = 404
        /\ calls[r] = <<[call |-> "findByPk", ok |-> TRUE]>>

(***************************************************************************)
(* C5: every failing persistence call is caught in its handler and         *)
(* answered 500 {error: 'Database error'}; no failure is left uncaught,    *)
(* the update() of the full update included.                               *)
(***************************************************************************)
C5_FailuresCaught ==
    /\ ~unhandled
    /\ \A r \in Reqs : (Answered(r) /\ ~AllCallsOk(r)) => resp[r] = DatabaseError

(***************************************************************************)
(* C6: a create whose body passes validation reaches the handler, and when *)
(* its create call does not fail it is answered 201 {data: product}        *)
(* without an errors key; exactly one id goes from Absent to Present, with *)
(* the submitted name and price, and every other row is unchanged.         *)
(***************************************************************************)
SubmittedPrice(v) == IF v = Str(<<"7">>) THEN 7 ELSE v.n
C6_CreateStep(r) ==
    /\ pc[r] = "handler" /\ req[r].op = "POST /"
    /\ calls'[r] = <<[call |-> "create", ok |-> TRUE]>>
C6_Created(r) ==
    LET body == req[r].body
        born == {i \in Ids : ~store[i].present /\ store'[i].present}
    IN  /\ pc'[r] = "respond"
        /\ resp'[r].status = 201
        /\ resp'[r].keys = {"data"}
        /\ Cardinality(born) = 1
        /\ \A i \in born :
              /\ store'[i].name = body.name
              /\ store'[i].price = Num(SubmittedPrice(body.price))
              /\ resp'[r].data = <<Product(i, store'[i])>>
        /\ \A i \in Ids \ born : store'[i] = store[i]
C6_ValidCreateIs201 ==
    /\ [][\A r \in Reqs : C6_CreateStep(r) => C6_Created(r)]_vars
    /\ [](\A r \in Reqs :
             (InFlight(r) /\ req[r].op = "POST /" /\ req[r].body.name \in ValidNames
                 /\ req[r].body.price \in ValidPrices)
                => /\ resp[r].status # 400
                   /\ (Answered(r) /\ AllCallsOk(r)) => resp[r].status = 201)
\* a second product has been created with a numeric-string price
C6_Witness ==
    \E r \in Reqs :
        /\ pc[r] = "done" /\ req[r].op = "POST /" /\ resp[r].status = 201
        /\ req[r].body.price = Str(<<"7">>)
        /\ resp[r].data[1].id = 2
        /\ store[1].present /\ store[2].present

(***************************************************************************)
(* C7: a full update of a Present id with a valid body, when no            *)
(* persistence call fails, is answered 200 {data: product}; from then on   *)
(* the row of that id holds the body's name, price and availability, under *)
(* the same id and still Present, and no other row changes.                *)
(***************************************************************************)
C7_Written(body) == Row(body.name, Num(SubmittedPrice(body.price)), body.availability)
C7_Found ==
    \A r \in Reqs :
        (/\ pc[r] = "handler" /\ req[r].op = "PUT /:id"
         /\ calls'[r] # calls[r] /\ calls'[r][1].ok
         /\ store[Pk(req[r].params.id)].present)
            => pc'[r] = "save"
C7_Saved ==
    \A r \in Reqs :
        (/\ pc[r] = "save" /\ req[r].op = "PUT /:id" /\ pc'[r] = "respond"
         /\ \A i \in 1..Len(calls'[r]) : calls'[r][i].ok)
            => LET id == Pk(req[r].params.id)
               IN  /\ resp'[r] = DataResp(200, <<Product(id, C7_Written(req[r].body))>>)
                   /\ store'[id] = C7_Written(req[r].body)
C7_OthersKept ==
    \A r \in Reqs :
        (InFlight(r) /\ req[r].op = "PUT /:id")
            => \A j \in Ids \ {Pk(req[r].params.id)} : store'[j] = store[j]
C7_FullUpdate ==
    /\ [][C7_Found /\ C7_Saved /\ C7_OthersKept]_vars
    /\ [](\A r \in Reqs :
             (Answered(r) /\ req[r].op = "PUT /:id" /\ resp[r].status = 200)
                => store[Pk(req[r].params.id)] = C7_Written(req[r].body))
\* a full update that changed all three fields has been answered, next to
\* another stored product
C7_Witness ==
    \E r \in Reqs :
        /\ pc[r] = "done" /\ req[r].op = "PUT /:id" /\ resp[r].status = 200
        /\ inst[r].changed = Fields
        /\ store[inst[r].id] = C7_Written(req[r].body)
        /\ \E j \in Ids \ {inst[r].id} : store[j].present

(***************************************************************************)
(* C8: a toggle of a Present id, when no persistence call fails, is        *)
(* answered 200 with the product as stored afterwards; its availability is *)
(* the negation of the value stored before the request, id, name and price *)
(* are as before, no other row changes, and the request body plays no      *)
(* part.                                                                   *)
(***************************************************************************)
Negation(v) == IF v = Bool(TRUE) THEN Bool(FALSE) ELSE Bool(TRUE)
C8_Found ==
    \A r \in Reqs :
        (/\ pc[r] = "handler" /\ req[r].op = "PATCH /:id"
         /\ calls'[r] # calls[r] /\ calls'[r][1].ok
         /\ store[Pk(req[r].params.id)].present)
            => pc'[r] = "save"
C8_Saved ==
    \A r \in Reqs :
        (/\ pc[r] = "save" /\ req[r].op = "PATCH /:id" /\ pc'[r] = "respond"
         /\ \A i \in 1..Len(calls'[r]) : calls'[r][i].ok)
            => LET id == Pk(req[r].params.id)
               IN  /\ store'[id] = [store[id] EXCEPT
                                       !.availability = Negation(store[id].availability)]
                   /\ store'[id].present
                   /\ resp'[r] = DataResp(200, <<Product(id, store'[id])>>)
                   /\ \A j \in Ids \ {id} : store'[j] = store[j]
C8_NothingElseWrites ==
    \A r \in Reqs :
        (InFlight(r) /\ req[r].op = "PATCH /:id")
            => (store' = store \/ (pc[r] = "save" /\ pc'[r] = "respond"))
C8_Toggle == [][C8_Found /\ C8_Saved /\ C8_NothingElseWrites]_vars
\* a toggle sent with a body asking for true has left the product
\* unavailable, next to another stored product
C8_Witness ==
    \E r \in Reqs :
        /\ pc[r] = "done" /\ req[r].op = "PATCH /:id" /\ resp[r].status = 200
        /\ req[r].body.availability = Bool(TRUE)
        /\ resp[r].data[1].availability = Bool(FALSE)
        /\ store[inst[r].id].availability = Bool(FALSE)
        /\ \E j \in Ids \ {inst[r].id} : store[j].present

(***************************************************************************)
(* C9: a delete of a Present id, when no persistence call fails, is        *)
(* answered 200 {data: 'Producto eliminado'} and leaves the id Absent; any *)
(* later get-by-id, full update, toggle or delete of an id deleted before  *)
(* it is answered 404 (when it passes validation and its lookup does not   *)
(* fail).                                                                  *)
(***************************************************************************)
C9_DeletedStays404 ==
    \A r \in Reqs :
        (Answered(r) /\ req[r].op \in IdOps /\ calls[r] # <<>> /\ AllCallsOk(r))
            => /\ "destroy" \in CallNames(r)
                  => /\ resp[r] = TextResp(200, "Producto eliminado")
                     /\ ~store[Pk(req[r].params.id)].present
               /\ ("destroy" \notin CallNames(r) /\ Pk(req[r].params.id) \in deleted)
                  => resp[r].status = 404

(***************************************************************************)
(* C10: every Present product has a price > 0, a name that is non-empty    *)
(* after trimming, and a boolean availability.                             *)
(***************************************************************************)
C10_RowsWellFormed ==
    \A i \in Ids :
        store[i].present
            => /\ store[i].price.t = "num" /\ store[i].price.n > 0
               /\ store[i].name.t = "str" /\ Trim(store[i].name.s) # <<>>
               /\ store[i].availability.t = "bool"

(***************************************************************************)
(* C11: ids are given out by the persistence layer and never repeat: every *)
(* Present id was drawn from the table's sequence (it lies below the       *)
(* sequence's next value) and was never deleted before, whatever id a      *)
(* create body carries; and a full update answers under the id of its      *)
(* path, whatever id its body carries.                                     *)
(***************************************************************************)
C11_IdsFromSequenceOnce ==
    /\ \A i \in Ids : store[i].present => (i < nextId /\ i \notin deleted)
    /\ \A r \in Reqs :
          (Answered(r) /\ req[r].op = "PUT /:id" /\ resp[r].status = 200)
              => /\ resp[r].data[1].id = Pk(req[r].params.id)
                 /\ inst[r].id = Pk(req[r].params.id)

(***************************************************************************)
(* C12: a product that a create has just made Present is available: the    *)
(* 201 answer and the stored row both carry availability = true, whatever  *)
(* availability the accepted body carries.                                 *)
(***************************************************************************)
C12_CreatedAvailable ==
    \A r \in Reqs :
        (Answered(r) /\ req[r].op = "POST /" /\ resp[r].status = 201)
            => /\ resp[r].data[1].availability = Bool(TRUE)
               /\ store[resp[r].data[1].id].availability = Bool(TRUE)

(***************************************************************************)
(* C13: list and get-by-id are pure reads.  No step of a GET, whatever its *)
(* outcome (200, 400, 404, 500), changes the table, its sequence or the    *)
(* writes under way; a get-by-id whose lookup succeeds answers with the    *)
(* row as stored, or 404; and a GET sent again with no write in between,   *)
(* whose store call has the same outcome, gets the same status and data.   *)
(***************************************************************************)
C13_NoWrite ==
    \A r \in Reqs :
        (pc'[r] # pc[r] /\ (req[r].op \in Reads \/ req'[r].op \in Reads))
            => (store' = store /\ nextId' = nextId /\ pending' = pending
                  /\ deleted' = deleted /\ unhandled' = unhandled)
C13_ReadsTheStore ==
    \A r \in Reqs :
        (Answered(r) /\ req[r].op = "GET /:id" /\ calls[r] # <<>> /\ AllCallsOk(r))
            => LET id == Pk(req[r].params.id)
               IN  resp[r] = IF store[id].present
                             THEN DataResp(200, <<Product(id, store[id])>>)
                             ELSE NotFound
C13_SameAnswer ==
    \A r, q \in Reqs :
        (/\ Answered(r) /\ Answered(q)
         /\ req[r].op \in Reads /\ req[q] = req[r]
         /\ calls[q] = calls[r])
            => resp[q] = resp[r]
C13_PureReads ==
    /\ [][C13_NoWrite]_vars
    /\ [](C13_ReadsTheStore /\ C13_SameAnswer)
\* a get-by-id of a stored product has been answered 200 twice in a row
C13_Witness ==
    \E r, q \in Reqs :
        /\ r # q /\ pc[r] = "done" /\ pc[q] = "done"
        /\ req[r].op = "GET /:id" /\ req[q] = req[r]
        /\ resp[r].status = 200 /\ resp[q].status = 200
        /\ \E i \in Ids : ~store[i].present

C15_BothUpdated(r, q) ==
    /\ r # q
    /\ ~unhandled
    /\ \A p \in {r, q} :
          /\ Answered(p) /\ req[p].op = "PUT /:id" /\ resp[p].status = 200
          /\ AllCallsOk(p)
          /\ \A w \in pending : w.by # p
    /\ req[r].params.id = req[q].params.id
C15_LastWriteWins ==
    \A r, q \in Reqs :
        C15_BothUpdated(r, q)
            => store[Pk(req[r].params.id)]
                  \in {C7_Written(req[r].body), C7_Written(req[q].body)}

(***************************************************************************)
(* C16: toggle parity.  While the only requests in flight are toggles of   *)
(* one product, Present with a boolean availability when they began to     *)
(* arrive, and k of them have been answered 200, the stored availability   *)
(* is the value from before them when k is even and its negation when k is *)
(* odd, however their findByPk and save steps interleave.                  *)
(***************************************************************************)
C16_Togglers(i) ==
    {p \in Reqs : InFlight(p) /\ req[p].op = "PATCH /:id"
                     /\ req[p].params.id = Str(IntToStr(i))}
C16_Toggled(i) == {p \in C16_Togglers(i) : Answered(p) /\ resp[p].status = 200}
C16_ToggleParity ==
    \A i \in Ids :
        (/\ before[i].present /\ before[i].availability.t = "bool"
         /\ \A p \in Reqs : InFlight(p) => p \in C16_Togglers(i))
            => store[i].availability =
                  IF Cardinality(C16_Toggled(i)) % 2 = 0
                  THEN before[i].availability
                  ELSE Negation(before[i].availability)

(***************************************************************************)
(* C17: when a full update or a toggle answers 200 while the only other    *)
(* request in flight is a delete of the same id, the product is Present at *)
(* that moment with exactly the fields of the answer; and no step of a     *)
(* full update or toggle makes an Absent id Present: only a create does.   *)
(***************************************************************************)
C17_BesideDelete(r) ==
    \A q \in Reqs \ {r} :
        InFlight(q) => (req[q].op = "DELETE /:id" /\ req[q].params.id = req[r].params.id)
C17_AnswersPresent ==
    \A r \in Reqs :
        (/\ req[r].op \in {"PUT /:id", "PATCH /:id"}
         /\ pc[r] = "save" /\ pc'[r] = "respond" /\ resp'[r].status = 200
         /\ C17_BesideDelete(r))
            => LET id == Pk(req[r].params.id)
               IN  /\ store'[id].present
                   /\ resp'[r].data = <<Product(id, store'[id])>>
C17_OnlyCreateRevives ==
    \A i \in Ids :
        (~store[i].present /\ store'[i].present)
            => \E r \in Reqs : /\ req[r].op = "POST /"
                               /\ pc[r] = "handler" /\ pc'[r] = "respond"
C17_OkMeansPresent == [][C17_AnswersPresent /\ C17_OnlyCreateRevives]_vars

====
